---- MODULE Spec2Model ----
(***************************************************************************)
(* Block-placement puzzle engine: the shape model (block.rs), the board    *)
(* (canvas.rs) and the session (game.rs).                                  *)
(*                                                                         *)
(* A board is a row-major vector of cell statuses, indexed from 0 as in    *)
(* the source.  Every operation of Canvas and Game is one action, taken    *)
(* when no call is outstanding (op = "idle").  The variables op, args and  *)
(* ret record the call and what it returned, old the board and score it    *)
(* started from; Return hands control back to the caller.                  *)
(***************************************************************************)
EXTENDS Integers, Sequences, FiniteSets, TLC

VARIABLES rows, columns, contents, score, op, args, ret, old, shape, trail

vars == <<rows, columns, contents, score, op, args, ret, old, shape, trail>>

(***************************************************************************)
(* Bounds of the model.                                                    *)
(***************************************************************************)
\* Boards of every shape with at most MaxCells cells are explored in full.
MaxCells == 9
\* Origins start Margin cells before the grid and end one cell after it.
Margin == 1
\* maybe_place_block is not called once the score has reached MaxScore.
MaxScore == 100
\* The supply is asked for 0..MaxBatch blocks; the blocks after the first are
\* asked of a small board when their number x its cells is at most MaxGenWork.
MaxBatch == 2
MaxGenWork == 4
\* Constructors are given sizes 0..MaxSize, and a block is then the receiver
\* of up to MaxTurns calls.
MaxSize == 6
MaxTurns == 4

(***************************************************************************)
(* Option<T>: None is the empty tuple, Some(v) the one-element tuple.      *)
(***************************************************************************)
None == <<>>
Some(v) == <<v>>
IsSome(o) == o # None
Unwrap(o) == o[1]

(***************************************************************************)
(* block.rs                                                                *)
(***************************************************************************)
MAX_RECTANGLE_EDGE == 3
MAX_LINE_LENGTH == 5
MIN_ELLE_EDGE == 2
MAX_ELLE_EDGE == 3

Point(px, py) == [x |-> px, y |-> py]

\* clamp with the lower limit left out
clamp_UpperOnly(v, lo, hi) == IF v > hi THEN hi ELSE v

\* usize::clamp
clamp(v, lo, hi) == IF v < lo THEN lo ELSE IF v > hi THEN hi ELSE v

\* rotate_right turning the other way
PointRotateRight_AsLeft(p) == [x |-> 0 - p.y, y |-> p.x]

\* Point::rotate_right: (x, y) -> (y, 0 - x)
PointRotateRight(p) == [x |-> p.y, y |-> 0 - p.x]

\* rotate_left with the sign of y kept: x and y exchanged
PointRotateLeft_Mirror(p) == [x |-> p.y, y |-> p.x]

\* Point::rotate_left: (x, y) -> (0 - y, x)
PointRotateLeft(p) == [x |-> 0 - p.y, y |-> p.x]

\* Block::tee: (0,0) (1,0) (2,0) then (1,1)
tee == [coords |-> [k \in 1..3 |-> Point(k - 1, 0)] \o <<Point(1, 1)>>,
        variant |-> "Tee"]

\* Block::rectangle: for i in 0..w { for j in 0..h { push (i, j) } }
rectangle(width, height) ==
    LET w == clamp(width, 1, MAX_RECTANGLE_EDGE)
        h == clamp(height, 1, MAX_RECTANGLE_EDGE)
    IN [coords |-> [k \in 1..(w * h) |-> Point((k - 1) \div h, (k - 1) % h)],
        variant |-> "Rectangle"]

\* Block::line: for i in 0..clamp(length) { push (i, 0) }
line(length) ==
    LET l == clamp(length, 2, MAX_LINE_LENGTH)
    IN [coords |-> [k \in 1..l |-> Point(k - 1, 0)], variant |-> "Line"]

\* diagonal with its loop starting at 1
diagonal_FromOne(width) ==
    [coords |-> [k \in 1..width |-> Point(k, k)], variant |-> "Diagonal"]

\* Block::diagonal: for i in 0..width { push (i, i) }, no clamping
diagonal(width) ==
    [coords |-> [k \in 1..width |-> Point(k - 1, k - 1)], variant |-> "Diagonal"]

\* Block::elle: (0,0), then (i,0) for i in 1..clamp(height), then (0,i) for
\* i in 1..clamp(width)
elle(width, height) ==
    LET h == clamp(height, MIN_ELLE_EDGE, MAX_ELLE_EDGE)
        w == clamp(width, MIN_ELLE_EDGE, MAX_ELLE_EDGE)
    IN [coords |-> <<Point(0, 0)>>
                   \o [k \in 1..(h - 1) |-> Point(k, 0)]
                   \o [k \in 1..(w - 1) |-> Point(0, k)],
        variant |-> "Elle"]

\* Block::rotate_right / Block::rotate_left: every point in place
rotate_right(b) ==
    [b EXCEPT !.coords = [k \in 1..Len(b.coords) |-> PointRotateRight(b.coords[k])]]

rotate_left(b) ==
    [b EXCEPT !.coords = [k \in 1..Len(b.coords) |-> PointRotateLeft(b.coords[k])]]

\* The largest count of a histogram, 0 when it has no entry
MaxCount(counts) ==
    IF counts = {} THEN 0 ELSE CHOOSE m \in counts : \A c \in counts : c <= m

\* dimensions with both histograms taken over the x values
dimensions_SameAxis(b) ==
    LET ks == 1..Len(b.coords)
        OnX(v) == Cardinality({k \in ks : b.coords[k].x = v})
        most == MaxCount({OnX(b.coords[k].x) : k \in ks})
    IN IF b.variant = "Diagonal"
       THEN [width |-> Len(b.coords), height |-> Len(b.coords)]
       ELSE [width |-> most, height |-> most]

\* dimensions with no shortcut for a Diagonal
dimensions_NoShortcut(b) ==
    LET ks == 1..Len(b.coords)
        OnX(v) == Cardinality({k \in ks : b.coords[k].x = v})
        OnY(v) == Cardinality({k \in ks : b.coords[k].y = v})
    IN [width |-> MaxCount({OnY(b.coords[k].y) : k \in ks}),
        height |-> MaxCount({OnX(b.coords[k].x) : k \in ks})]

\* Block::dimensions: a Diagonal is as wide and as high as it has points;
\* otherwise the height is the largest number of points sharing one x and
\* the width the largest number of points sharing one y
dimensions(b) ==
    LET ks == 1..Len(b.coords)
        OnX(v) == Cardinality({k \in ks : b.coords[k].x = v})
        OnY(v) == Cardinality({k \in ks : b.coords[k].y = v})
    IN IF b.variant = "Diagonal"
       THEN [width |-> Len(b.coords), height |-> Len(b.coords)]
       ELSE [width |-> MaxCount({OnY(b.coords[k].y) : k \in ks}),
             height |-> MaxCount({OnX(b.coords[k].x) : k \in ks})]

\* n successive rotate_left calls
RECURSIVE RotatedLeft(_, _)
RotatedLeft(b, n) == IF n = 0 THEN b ELSE RotatedLeft(rotate_left(b), n - 1)

(***************************************************************************)
(* canvas.rs                                                               *)
(***************************************************************************)
DEFAULT_CANVAS_HEIGHT == 8
DEFAULT_CANVAS_WIDTH == 8

\* `v as usize` for an i32 v and `u as i32` for the usize it gave, on a
\* 64-bit target: a negative v wraps to 2^64 + v, written here as the pair
\* <<1, v>> (one wrap, offset v); truncating back to 32 bits drops the wrap.
AsUsize(v) == IF v < 0 THEN [wrap |-> 1, low |-> v] ELSE [wrap |-> 0, low |-> v]
AsI32(u) == u.low

\* Canvas::new: rows * columns Empty cells
CanvasNew(r, c) == [i \in 0..(r * c - 1) |-> "Empty"]

\* position_to_index with > where the bounds are compared with >=
position_to_index_Inclusive(x, y) ==
    IF x < 0 \/ y < 0 \/ x > columns \/ y > rows
    THEN None
    ELSE Some(columns * y + x)

\* Canvas::position_to_index
position_to_index(x, y) ==
    IF x < 0 \/ y < 0 \/ x >= columns \/ y >= rows
    THEN None
    ELSE Some(columns * y + x)

\* can_fit_at returning after its first point
can_fit_at_FirstPoint(cs, block, row, column) ==
    \A k \in 1..Len(block.coords) :
        LET p == block.coords[k]
            index == position_to_index(column + p.x, row + p.y)
        IN (k = 1 /\ IsSome(index)) => cs[Unwrap(index)] # "Occupied"

\* can_fit_at with a point that has no index treated as a collision
can_fit_at_Strict(cs, block, row, column) ==
    \A k \in 1..Len(block.coords) :
        LET p == block.coords[k]
            index == position_to_index(column + p.x, row + p.y)
        IN IsSome(index) /\ cs[Unwrap(index)] # "Occupied"

\* Canvas::can_fit_at: false at the first point that lands on an Occupied
\* cell, points with no index are skipped
can_fit_at(cs, block, row, column) ==
    \A k \in 1..Len(block.coords) :
        LET p == block.coords[k]
            index == position_to_index(column + p.x, row + p.y)
        IN IsSome(index) => cs[Unwrap(index)] # "Occupied"

\* can_fit trying the first origin of its scan only
can_fit_OriginOnly(cs, block) ==
    rows >= 1 /\ columns >= 1 /\ can_fit_at(cs, block, 0, 0)

\* Canvas::can_fit: the scan calls can_fit_at(block, col, row)
can_fit(cs, block) ==
    \E row \in 0..(rows - 1) : \E col \in 0..(columns - 1) :
        can_fit_at(cs, block, col, row)

\* try_make_playable with the fit-check left out
try_make_playable_Unchecked(cs, block, row, column) ==
    Some([block |-> block, row |-> AsUsize(row), column |-> AsUsize(column)])

\* try_make_playable with row and column exchanged in the fit-check
try_make_playable_SwappedOrigin(cs, block, row, column) ==
    IF ~can_fit_at(cs, block, column, row)
    THEN None
    ELSE Some([block |-> block, row |-> AsUsize(row), column |-> AsUsize(column)])

\* Canvas::try_make_playable
try_make_playable(cs, block, row, column) ==
    IF ~can_fit_at(cs, block, row, column)
    THEN None
    ELSE Some([block |-> block, row |-> AsUsize(row), column |-> AsUsize(column)])

\* Canvas::add: the loop over the block's points, one store per point
RECURSIVE AddFrom(_, _, _)
AddFrom(cs, pb, k) ==
    IF k > Len(pb.block.coords) THEN cs
    ELSE LET p == pb.block.coords[k]
             index == position_to_index(AsI32(pb.column) + p.x, AsI32(pb.row) + p.y)
         IN AddFrom(IF IsSome(index)
                    THEN [cs EXCEPT ![Unwrap(index)] = "Occupied"]
                    ELSE cs, pb, k + 1)

\* add with the block's row used as x and its column as y
add_SwappedOrigin(cs, pb) ==
    AddFrom(cs, [pb EXCEPT !.row = pb.column, !.column = pb.row], 1)

add(cs, pb) == AddFrom(cs, pb, 1)

\* is_complete_row comparing the count with rows
is_complete_row_CountsRows(cs, row) ==
    IF rows <= row THEN None
    ELSE LET counted == {col \in 0..(columns - 1) :
                            LET index == position_to_index(col, row)
                            IN IsSome(index) /\ cs[Unwrap(index)] # "Empty"}
         IN IF Cardinality(counted) # rows THEN Some(FALSE) ELSE Some(TRUE)

\* is_complete_row counting Occupied cells only
is_complete_row_IgnoresMarked(cs, row) ==
    IF rows <= row THEN None
    ELSE LET counted == {col \in 0..(columns - 1) :
                            LET index == position_to_index(col, row)
                            IN IsSome(index) /\ cs[Unwrap(index)] = "Occupied"}
         IN IF Cardinality(counted) # columns THEN Some(FALSE) ELSE Some(TRUE)

\* is_complete_row with the range test rows < row
is_complete_row_OffByOne(cs, row) ==
    IF rows < row THEN None
    ELSE LET counted == {col \in 0..(columns - 1) :
                            LET index == position_to_index(col, row)
                            IN IsSome(index) /\ cs[Unwrap(index)] # "Empty"}
         IN IF Cardinality(counted) # columns THEN Some(FALSE) ELSE Some(TRUE)

\* Canvas::is_complete_row: None past the last row, else whether the count of
\* Occupied and MarkedForRemoval cells of the row equals columns
is_complete_row(cs, row) ==
    IF rows <= row THEN None
    ELSE LET counted == {col \in 0..(columns - 1) :
                            LET index == position_to_index(col, row)
                            IN IsSome(index) /\ cs[Unwrap(index)] # "Empty"}
         IN IF Cardinality(counted) # columns THEN Some(FALSE) ELSE Some(TRUE)

\* Canvas::is_complete_column
is_complete_column(cs, column) ==
    IF columns <= column THEN None
    ELSE LET counted == {row \in 0..(rows - 1) :
                            LET index == position_to_index(column, row)
                            IN IsSome(index) /\ cs[Unwrap(index)] # "Empty"}
         IN IF Cardinality(counted) # rows THEN Some(FALSE) ELSE Some(TRUE)

\* One line marked: every cell of the line that has an index
RECURSIVE MarkCells(_, _)
MarkCells(cs, indexes) ==
    IF indexes = {} THEN cs
    ELSE LET index == CHOOSE i \in indexes : TRUE
         IN MarkCells(IF IsSome(index)
                      THEN [cs EXCEPT ![Unwrap(index)] = "MarkedForRemoval"]
                      ELSE cs, indexes \ {index})

\* clear_completed_lines, "mark cols": columns col..columns-1 in order, each
\* tested against the board as marked so far; the result is the board and
\* the count
RECURSIVE MarkCols(_, _, _)
MarkCols(cs, removed, col) ==
    IF col >= columns THEN [contents |-> cs, removed |-> removed]
    ELSE IF is_complete_column(cs, col) = Some(TRUE)
         THEN MarkCols(MarkCells(cs, {position_to_index(col, row) : row \in 0..(rows - 1)}),
                       removed + 1, col + 1)
         ELSE MarkCols(cs, removed, col + 1)

\* clear_completed_lines, "mark rows"
RECURSIVE MarkRows(_, _, _)
MarkRows(cs, removed, row) ==
    IF row >= rows THEN [contents |-> cs, removed |-> removed]
    ELSE IF is_complete_row(cs, row) = Some(TRUE)
         THEN MarkRows(MarkCells(cs, {position_to_index(col, row) : col \in 0..(columns - 1)}),
                       removed + 1, row + 1)
         ELSE MarkRows(cs, removed, row + 1)

\* The sweep emptying every cell that is not Empty
Sweep_Occupied(cs) == [i \in DOMAIN cs |-> "Empty"]

\* The sweep left out
Sweep_Skipped(cs) == cs

\* clear_completed_lines, "mark empty": the sweep
Sweep(cs) == [i \in DOMAIN cs |-> IF cs[i] = "MarkedForRemoval" THEN "Empty" ELSE cs[i]]

\* clear_completed_lines with the marked columns emptied before the rows are tested
clear_completed_lines_ColumnsCleared(cs) ==
    LET c == MarkCols(cs, 0, 0)
        r == MarkRows(Sweep(c.contents), c.removed, 0)
    IN [contents |-> Sweep(r.contents), removed |-> r.removed]

\* clear_completed_lines marking the first complete column only
clear_completed_lines_OneColumn(cs) ==
    LET full == {col \in 0..(columns - 1) : is_complete_column(cs, col) = Some(TRUE)}
        c == IF full = {}
             THEN [contents |-> cs, removed |-> 0]
             ELSE LET col == CHOOSE a \in full : \A b \in full : a <= b
                  IN [contents |-> MarkCells(cs, {position_to_index(col, row) : row \in 0..(rows - 1)}),
                      removed |-> 1]
        r == MarkRows(c.contents, c.removed, 0)
    IN [contents |-> Sweep(r.contents), removed |-> r.removed]

\* Canvas::clear_completed_lines: the board left and the count returned
clear_completed_lines(cs) ==
    LET c == MarkCols(cs, 0, 0)
        r == MarkRows(c.contents, c.removed, 0)
    IN [contents |-> Sweep(r.contents), removed |-> r.removed]

\* Canvas::clear_all
clear_all(cs) == [i \in DOMAIN cs |-> "Empty"]

(***************************************************************************)
(* game.rs                                                                 *)
(***************************************************************************)
POINTS_PER_LINE_CLEAR == 50

\* Game::update_score
\* update_score adding the number of lines, not their points
update_score_RawCount(sc, lines_cleared) == sc + lines_cleared

\* update_score storing the points of this call over the score
update_score_Overwrite(sc, lines_cleared) == lines_cleared * POINTS_PER_LINE_CLEAR

\* Game::update_score
update_score(sc, lines_cleared) == sc + lines_cleared * POINTS_PER_LINE_CLEAR

\* maybe_place_block without the call of clear_completed_lines
maybe_place_block_NoClear(cs, sc, block, row, column) ==
    LET playable == try_make_playable(cs, block, row, column)
    IN IF ~IsSome(playable)
       THEN [contents |-> cs, score |-> sc, ret |-> "Err"]
       ELSE [contents |-> add(cs, Unwrap(playable)), score |-> sc, ret |-> "Ok"]

\* Game::maybe_place_block: the board and score left, and the Result
maybe_place_block(cs, sc, block, row, column) ==
    LET playable == try_make_playable(cs, block, row, column)
    IN IF ~IsSome(playable)
       THEN [contents |-> cs, score |-> sc, ret |-> "Err"]
       ELSE LET cleared == clear_completed_lines(add(cs, Unwrap(playable)))
            IN [contents |-> cleared.contents,
                score |-> update_score(sc, cleared.removed),
                ret |-> "Ok"]

\* reset that clears the board and keeps the score
reset_KeepsScore(cs, sc) == [contents |-> clear_all(cs), score |-> sc]

\* Game::reset
reset(cs, sc) == [contents |-> clear_all(cs), score |-> 0]

\* The candidate pool of naive_generate_block, in the order it is written
all_blocks ==
    <<rectangle(3, 3), rectangle(3, 2), rectangle(2, 3), rectangle(2, 2),
      rectangle(1, 1), tee, line(2), line(3), line(4), line(5),
      elle(3, 3), elle(3, 2), elle(2, 3), elle(2, 2),
      diagonal(2), diagonal(3), diagonal(4)>>

\* The rotations the inner loop of naive_generate_block steps through:
\* all_rotations[i][t + 1] is block i of the pool after t calls of rotate_left
all_rotations ==
    [i \in 1..Len(all_blocks) |->
        [t \in 1..(360 \div 90) |-> RotatedLeft(all_blocks[i], t - 1)]]

\* all_blocks.shuffle, as the order of the pool's indexes: the pool started at
\* its element s + 1.  A slot returns the first block of the shuffled pool
\* that fits in some rotation, and each block of the pool comes first in one
\* of these orders, so they give every result a permutation can give.
Shuffled(s) ==
    [k \in 1..Len(all_blocks) |-> ((k - 1 + s) % Len(all_blocks)) + 1]

\* canvas.can_fit(&block) as naive_generate_block uses it, an Option of a
\* PlayableBlock: None when can_fit is false, else the PlayableBlock of the
\* first call can_fit_at(block, col, row) of the scan of can_fit that passes.
can_fit_playable(cs, block) ==
    LET scan == 0..(rows * columns - 1)
        Fits(i) == can_fit_at(cs, block, i % columns, i \div columns)
    IN IF can_fit(cs, block)
       THEN LET first == CHOOSE i \in scan : Fits(i) /\ \A j \in 0..(i - 1) : ~Fits(j)
            IN try_make_playable(cs, block, first % columns, first \div columns)
       ELSE None

\* Game::naive_generate_block on the canvas it is given: attempt a of its
\* loops takes block a \div 4 + 1 of the shuffled pool rotated left a % 4
\* times; the first attempt that fits is added to the canvas and returned.
naive_generate_block(canvas, order) ==
    LET turns == 360 \div 90
        attempts == 0..(Len(order) * turns - 1)
        Attempt(a) == all_rotations[order[(a \div turns) + 1]][(a % turns) + 1]
        Fits(a) == IsSome(can_fit_playable(canvas, Attempt(a)))
    IN IF \E a \in attempts : Fits(a)
       THEN LET first == CHOOSE a \in attempts : Fits(a) /\ \A b \in 0..(a - 1) : ~Fits(b)
                block == Attempt(first)
            IN [canvas |-> add(canvas, Unwrap(can_fit_playable(canvas, block))),
                ret |-> Some(block)]
       ELSE [canvas |-> canvas, ret |-> None]

\* blocks.reverse()
Reverse(seq) == [k \in 1..Len(seq) |-> seq[Len(seq) + 1 - k]]

\* The loop of generate_blocks from slot k: the shadow canvas and the blocks
\* pushed when it ends, and the Option returned
RECURSIVE Slots(_, _, _, _, _)
Slots(shadow_canvas, blocks, n, orders, k) ==
    IF k > n
    THEN [shadow |-> shadow_canvas, blocks |-> blocks, ret |-> Some(Reverse(blocks))]
    ELSE LET generated == naive_generate_block(shadow_canvas, orders[k])
         IN IF IsSome(generated.ret)
            THEN Slots(generated.canvas, Append(blocks, Unwrap(generated.ret)),
                       n, orders, k + 1)
            ELSE [shadow |-> generated.canvas, blocks |-> blocks, ret |-> None]

\* generate_blocks simulating on the canvas of the game, not on a clone
generate_blocks_OnRealCanvas(cs, n, orders) ==
    LET done == Slots(cs, <<>>, n, orders, 1)
    IN [canvas |-> done.shadow, ret |-> done.ret]

\* generate_blocks returning the blocks it has when a slot fails
generate_blocks_Partial(cs, n, orders) ==
    LET done == Slots(cs, <<>>, n, orders, 1)
    IN [canvas |-> cs,
        ret |-> IF IsSome(done.ret) THEN done.ret ELSE Some(Reverse(done.blocks))]

\* generate_blocks with its loop one slot short
generate_blocks_OffByOne(cs, n, orders) ==
    LET done == Slots(cs, <<>>, n - 1, orders, 1)
    IN [canvas |-> cs, ret |-> done.ret]

\* Game::generate_blocks: the canvas of the game after the call, and the
\* Option returned
generate_blocks(cs, n, orders) ==
    LET done == Slots(cs, <<>>, n, orders, 1)
    IN [canvas |-> cs, ret |-> done.ret]

(***************************************************************************)
(* Inputs.  A board of at most MaxCells cells takes every block of Blocks  *)
(* at every origin of the grid and its margin.  The default 8x8 board      *)
(* takes 1x1 blocks, all in one row of the grid.                           *)
(***************************************************************************)
Small == rows * columns <= MaxCells

Dims ==
    {d \in (1..MaxCells) \X (1..MaxCells) : d[1] * d[2] <= MaxCells}
        \cup {<<DEFAULT_CANVAS_HEIGHT, DEFAULT_CANVAS_WIDTH>>}

\* The four rotations a generator slot tries: (0..360).step_by(90)
Rotations == 0..3

SmallBoardBlocks ==
    {RotatedLeft(b, n) : b \in {rectangle(1, 1), line(2), tee}, n \in Rotations}

Blocks == IF Small THEN SmallBoardBlocks ELSE {rectangle(1, 1)}

OriginRows ==
    IF Small
    THEN (0 - Margin)..rows
    ELSE {r \in 0..(rows - 1) :
            \A i \in DOMAIN contents : contents[i] # "Empty" => i \div columns = r}

OriginCols == IF Small THEN (0 - Margin)..columns ELSE 0..(columns - 1)

\* Every PlayableBlock over the inputs can be held by a caller: each of them
\* was returned by try_make_playable on the empty board a Canvas starts as.
PlayableBlocks ==
    {[block |-> b, row |-> AsUsize(r), column |-> AsUsize(c)] :
        b \in Blocks, r \in OriginRows, c \in OriginCols}

\* Batch sizes a session asks of generate_blocks between its placements
BatchSizes == IF Small THEN {0, 1} ELSE {1}

\* Batch sizes asked of the supply on its own: 0..MaxBatch within MaxGenWork on
\* the small boards; one block on the default board, and three when it is
\* empty.
SupplySizes ==
    IF Small
    THEN {n \in 0..MaxBatch : n <= 1 \/ (n - 1) * rows * columns <= MaxGenWork}
    ELSE {1} \cup (IF \A i \in DOMAIN contents : contents[i] = "Empty" THEN {3} ELSE {})

\* Origins on the grid
GridRows == {r \in OriginRows : 0 <= r /\ r < rows}
GridCols == {c \in OriginCols : 0 <= c /\ c < columns}

\* The shuffles of the n slots, each given by the pool element it starts at
ShuffleChoices(n) == [1..n -> 0..(Len(all_blocks) - 1)]

Snapshot == [contents |-> contents, score |-> score, rows |-> rows, columns |-> columns]

(***************************************************************************)
(* State machine                                                           *)
(***************************************************************************)
Init ==
    /\ \E d \in Dims : rows = d[1] /\ columns = d[2]
    /\ contents = CanvasNew(rows, columns)
    /\ score = 0
    /\ op = "new"
    /\ args = <<>>
    /\ ret = None
    /\ old = [contents |-> contents, score |-> score, rows |-> rows, columns |-> columns]
    /\ shape = None
    /\ trail = <<>>

Idle == op = "idle"

\* The caller takes the result; the board and the score stay as they are.
Return ==
    /\ ~Idle
    /\ op' = "idle"
    /\ args' = <<>>
    /\ ret' = None
    /\ old' = Snapshot
    /\ UNCHANGED <<shape, trail, rows, columns, contents, score>>

CanFitAt(b, r, c) ==
    /\ Idle
    /\ op' = "can_fit_at"
    /\ args' = [block |-> b, row |-> r, column |-> c]
    /\ ret' = can_fit_at(contents, b, r, c)
    /\ old' = Snapshot
    /\ UNCHANGED <<shape, trail, rows, columns, contents, score>>

CanFit(b) ==
    /\ Idle
    /\ op' = "can_fit"
    /\ args' = [block |-> b]
    /\ ret' = can_fit(contents, b)
    /\ old' = Snapshot
    /\ UNCHANGED <<shape, trail, rows, columns, contents, score>>

TryMakePlayable(b, r, c) ==
    /\ Idle
    /\ op' = "try_make_playable"
    /\ args' = [block |-> b, row |-> r, column |-> c]
    /\ ret' = try_make_playable(contents, b, r, c)
    /\ old' = Snapshot
    /\ UNCHANGED <<shape, trail, rows, columns, contents, score>>

Add(pb) ==
    /\ Idle
    /\ op' = "add"
    /\ args' = [playable |-> pb]
    /\ contents' = add(contents, pb)
    /\ ret' = None
    /\ old' = Snapshot
    /\ UNCHANGED <<shape, trail, rows, columns, score>>

ClearCompletedLines ==
    /\ Idle
    /\ op' = "clear_completed_lines"
    /\ args' = <<>>
    /\ contents' = clear_completed_lines(contents).contents
    /\ ret' = clear_completed_lines(contents).removed
    /\ old' = Snapshot
    /\ UNCHANGED <<shape, trail, rows, columns, score>>

IsCompleteRow(r) ==
    /\ Idle
    /\ op' = "is_complete_row"
    /\ args' = [row |-> r]
    /\ ret' = is_complete_row(contents, r)
    /\ old' = Snapshot
    /\ UNCHANGED <<shape, trail, rows, columns, contents, score>>

IsCompleteColumn(c) ==
    /\ Idle
    /\ op' = "is_complete_column"
    /\ args' = [column |-> c]
    /\ ret' = is_complete_column(contents, c)
    /\ old' = Snapshot
    /\ UNCHANGED <<shape, trail, rows, columns, contents, score>>

ClearAll ==
    /\ Idle
    /\ op' = "clear_all"
    /\ args' = <<>>
    /\ contents' = clear_all(contents)
    /\ ret' = None
    /\ old' = Snapshot
    /\ UNCHANGED <<shape, trail, rows, columns, score>>

MaybePlaceBlock(b, r, c) ==
    /\ Idle
    /\ score < MaxScore
    /\ op' = "maybe_place_block"
    /\ args' = [block |-> b, row |-> r, column |-> c]
    /\ LET done == maybe_place_block(contents, score, b, r, c)
       IN /\ contents' = done.contents
          /\ score' = done.score
          /\ ret' = done.ret
    /\ old' = Snapshot
    /\ UNCHANGED <<shape, trail, rows, columns>>

Reset ==
    /\ Idle
    /\ op' = "reset"
    /\ args' = <<>>
    /\ contents' = reset(contents, score).contents
    /\ score' = reset(contents, score).score
    /\ ret' = None
    /\ old' = Snapshot
    /\ UNCHANGED <<shape, trail, rows, columns>>

GenerateBlocks(n, shuffles) ==
    /\ Idle
    /\ op' = "generate_blocks"
    /\ args' = [n |-> n, shuffles |-> shuffles]
    /\ LET done == generate_blocks(contents, n, [k \in 1..n |-> Shuffled(shuffles[k])])
       IN /\ contents' = done.canvas
          /\ ret' = done.ret
    /\ old' = Snapshot
    /\ UNCHANGED <<shape, trail, rows, columns, score>>

\* The operations of a Canvas on its own
NextCanvas ==
    \/ Idle /\ \E b \in Blocks, r \in OriginRows, c \in OriginCols : CanFitAt(b, r, c)
    \/ Idle /\ \E b \in Blocks : CanFit(b)
    \/ Idle /\ \E b \in Blocks, r \in OriginRows, c \in OriginCols : TryMakePlayable(b, r, c)
    \/ Idle /\ \E pb \in PlayableBlocks : Add(pb)
    \/ ClearCompletedLines
    \/ Idle /\ \E r \in 0..(rows + Margin) : IsCompleteRow(r)
    \/ Idle /\ \E c \in 0..(columns + Margin) : IsCompleteColumn(c)
    \/ ClearAll
    \/ Return

SpecCanvas == Init /\ [][NextCanvas]_vars

\* The operations of a Game
Next ==
    \/ Idle /\ \E b \in Blocks, r \in OriginRows, c \in OriginCols : MaybePlaceBlock(b, r, c)
    \/ Idle /\ \E n \in BatchSizes : \E shuffles \in ShuffleChoices(n) : GenerateBlocks(n, shuffles)
    \/ Reset
    \/ Return

Spec == Init /\ [][Next]_vars

\* The supply on its own: batches asked of the boards that 1x1 placements on
\* the grid build
NextSupply ==
    \/ Idle /\ \E r \in GridRows, c \in GridCols : MaybePlaceBlock(rectangle(1, 1), r, c)
    \/ Idle /\ \E n \in SupplySizes : \E shuffles \in ShuffleChoices(n) : GenerateBlocks(n, shuffles)
    \/ Return

SpecSupply == Init /\ [][NextSupply]_vars

\* position_to_index on its own, asked of boards as Canvas::new builds them
Coordinates(size) == (0 - 3 * Margin)..(size - 1 + 3 * Margin)

PositionToIndex(x, y) ==
    /\ Idle
    /\ op' = "position_to_index"
    /\ args' = [x |-> x, y |-> y]
    /\ ret' = position_to_index(x, y)
    /\ old' = Snapshot
    /\ UNCHANGED <<shape, trail, rows, columns, contents, score>>

NextIndex ==
    \/ Idle /\ \E x \in Coordinates(columns), y \in Coordinates(rows) : PositionToIndex(x, y)
    \/ Return

SpecIndex == Init /\ [][NextIndex]_vars

(***************************************************************************)
(* A Block on its own: shape is the Block a caller has constructed and     *)
(* then calls rotate_right, rotate_left and dimensions on; op, args and    *)
(* ret are the call just made and trail the calls before it, oldest first. *)
(***************************************************************************)
Sizes == 0..MaxSize

\* Every constructor call: its name, its arguments and the Block returned
Constructed ==
    {[op |-> "tee", args |-> <<>>, ret |-> tee]}
    \cup {[op |-> "rectangle", args |-> [width |-> w, height |-> h],
           ret |-> rectangle(w, h)] : w \in Sizes, h \in Sizes}
    \cup {[op |-> "line", args |-> [length |-> l], ret |-> line(l)] : l \in Sizes}
    \cup {[op |-> "diagonal", args |-> [width |-> w], ret |-> diagonal(w)] : w \in Sizes}
    \cup {[op |-> "elle", args |-> [width |-> w, height |-> h],
           ret |-> elle(w, h)] : w \in Sizes, h \in Sizes}

InitBlock ==
    /\ rows = 0 /\ columns = 0
    /\ contents = CanvasNew(rows, columns)
    /\ score = 0
    /\ old = [contents |-> contents, score |-> score, rows |-> rows, columns |-> columns]
    /\ \E made \in Constructed :
        /\ op = made.op
        /\ args = made.args
        /\ ret = made.ret
        /\ shape = made.ret
    /\ trail = <<>>

\* The call just made
Called == [op |-> op, args |-> args, ret |-> ret]

RotateRight ==
    /\ Len(trail) < MaxTurns
    /\ op' = "rotate_right"
    /\ args' = [block |-> shape]
    /\ shape' = rotate_right(shape)
    /\ ret' = rotate_right(shape)
    /\ trail' = Append(trail, Called)
    /\ UNCHANGED <<rows, columns, contents, score, old>>

RotateLeft ==
    /\ Len(trail) < MaxTurns
    /\ op' = "rotate_left"
    /\ args' = [block |-> shape]
    /\ shape' = rotate_left(shape)
    /\ ret' = rotate_left(shape)
    /\ trail' = Append(trail, Called)
    /\ UNCHANGED <<rows, columns, contents, score, old>>

Dimensions ==
    /\ Len(trail) < MaxTurns
    /\ op' = "dimensions"
    /\ args' = [block |-> shape]
    /\ ret' = dimensions(shape)
    /\ trail' = Append(trail, Called)
    /\ UNCHANGED <<rows, columns, contents, score, old, shape>>

NextBlock ==
    \/ RotateRight
    \/ RotateLeft
    \/ Dimensions

SpecBlock == InitBlock /\ [][NextBlock]_vars

(***************************************************************************)
(* Vocabulary of the properties: the grid as rows and columns of cells.    *)
(***************************************************************************)
OnGrid(x, y) == 0 <= x /\ x < columns /\ 0 <= y /\ y < rows
Cell(cs, x, y) == cs[y * columns + x]
Points(block) == {block.coords[k] : k \in 1..Len(block.coords)}
\* The absolute positions <<x, y>> a block covers from an origin
Covers(block, row, column) == {<<column + p.x, row + p.y>> : p \in Points(block)}
RowFull(cs, y) == \A x \in 0..(columns - 1) : Cell(cs, x, y) = "Occupied"
ColumnFull(cs, x) == \A y \in 0..(rows - 1) : Cell(cs, x, y) = "Occupied"
FullRows(cs) == {y \in 0..(rows - 1) : RowFull(cs, y)}
FullColumns(cs) == {x \in 0..(columns - 1) : ColumnFull(cs, x)}
OccupiedCells(cs) == {i \in DOMAIN cs : cs[i] = "Occupied"}

(***************************************************************************)
(* C1: a maybe_place_block whose shape does not fit at the origin          *)
(* (can_fit_at false on the board the call started from) returns an error  *)
(* and leaves every cell and the score as they were.                       *)
(***************************************************************************)
C1_FailedPlacementChangesNothing ==
    (op = "maybe_place_block"
        /\ ~can_fit_at(old.contents, args.block, args.row, args.column))
    => (ret = "Err" /\ contents = old.contents /\ score = old.score)

\* A placement refused on a board that has already scored
C1_Witness ==
    /\ op = "maybe_place_block"
    /\ ~can_fit_at(old.contents, args.block, args.row, args.column)
    /\ ret = "Err"
    /\ old.score > 0
    /\ OccupiedCells(contents) # {}

(***************************************************************************)
(* C2: try_make_playable returns a PlayableBlock iff can_fit_at holds at   *)
(* that origin on the current board, and never changes the board; once a   *)
(* 1x1 has been added at an on-grid cell, try_make_playable of a 1x1 at    *)
(* the same cell fails.                                                    *)
(***************************************************************************)
C2_TryMakePlayable ==
    /\ op = "try_make_playable" =>
        /\ IsSome(ret) <=> can_fit_at(old.contents, args.block, args.row, args.column)
        /\ contents = old.contents
    /\ (op = "add"
            /\ args.playable.block = rectangle(1, 1)
            /\ OnGrid(AsI32(args.playable.column), AsI32(args.playable.row)))
        => try_make_playable(contents, rectangle(1, 1),
                             AsI32(args.playable.row), AsI32(args.playable.column)) = None

\* The second 1x1 at an occupied on-grid cell is refused
C2_Witness ==
    /\ op = "try_make_playable"
    /\ args.block = rectangle(1, 1)
    /\ OnGrid(args.column, args.row)
    /\ Cell(old.contents, args.column, args.row) = "Occupied"
    /\ ret = None
    /\ contents = old.contents

(***************************************************************************)
(* C3: can_fit_at is true iff every point of the shape, translated to      *)
(* (column + x, row + y), is off the grid or on an Empty cell; it is false *)
(* iff some translated point is on an Occupied cell; the board is left     *)
(* unchanged.                                                              *)
(***************************************************************************)
C3_CanFitAt ==
    op = "can_fit_at" =>
        LET at == Covers(args.block, args.row, args.column)
        IN /\ ret = TRUE <=>
                \A q \in at : ~OnGrid(q[1], q[2]) \/ Cell(old.contents, q[1], q[2]) = "Empty"
           /\ ret = FALSE <=>
                \E q \in at : OnGrid(q[1], q[2]) /\ Cell(old.contents, q[1], q[2]) = "Occupied"
           /\ contents = old.contents

\* A shape that hangs off a board with occupied cells and still fits
C3_Witness ==
    /\ op = "can_fit_at"
    /\ ret = TRUE
    /\ OccupiedCells(contents) # {}
    /\ \E q \in Covers(args.block, args.row, args.column) : ~OnGrid(q[1], q[2])
    /\ \E q \in Covers(args.block, args.row, args.column) : OnGrid(q[1], q[2])

(***************************************************************************)
(* C4: add sets to Occupied exactly the on-grid cells the block covers     *)
(* from its origin and leaves every other cell as it was.                  *)
(***************************************************************************)
C4_AddFrame ==
    op = "add" =>
        LET pb == args.playable
            at == Covers(pb.block, AsI32(pb.row), AsI32(pb.column))
        IN /\ DOMAIN contents = DOMAIN old.contents
           /\ \A x \in 0..(columns - 1), y \in 0..(rows - 1) :
                Cell(contents, x, y) =
                    IF <<x, y>> \in at THEN "Occupied" ELSE Cell(old.contents, x, y)

\* A block partly off the grid added to a board that keeps an earlier cell
C4_Witness ==
    /\ op = "add"
    /\ LET pb == args.playable
           at == Covers(pb.block, AsI32(pb.row), AsI32(pb.column))
       IN /\ \E q \in at : ~OnGrid(q[1], q[2])
          /\ \E q \in at : OnGrid(q[1], q[2])
          /\ \E x \in 0..(columns - 1), y \in 0..(rows - 1) :
                <<x, y>> \notin at /\ Cell(contents, x, y) = "Occupied"
          /\ contents # old.contents

(***************************************************************************)
(* C5: on a board of any dimensions, can_fit is true iff some origin with  *)
(* 0 <= row < rows and 0 <= column < columns passes can_fit_at.            *)
(***************************************************************************)
C5_CanFitScansGrid ==
    op = "can_fit" =>
        (ret <=> \E r \in 0..(rows - 1), c \in 0..(columns - 1) :
                    can_fit_at(old.contents, args.block, r, c))

(***************************************************************************)
(* C6: for a row inside the grid, is_complete_row is Some(true) iff every  *)
(* cell of the row is Occupied and Some(false) otherwise; the same for     *)
(* is_complete_column.                                                     *)
(***************************************************************************)
C6_CompleteLine ==
    /\ (op = "is_complete_row" /\ args.row < rows)
        => ret = Some(RowFull(old.contents, args.row))
    /\ (op = "is_complete_column" /\ args.column < columns)
        => ret = Some(ColumnFull(old.contents, args.column))

\* One row of the 8x8 board filled by eight 1x1 additions, and found complete
C6_Witness ==
    /\ rows = 8 /\ columns = 8
    /\ op = "is_complete_row"
    /\ ret = Some(TRUE)
    /\ OccupiedCells(contents) = {args.row * columns + x : x \in 0..(columns - 1)}

(***************************************************************************)
(* C7: clear_completed_lines sets to Empty exactly the cells of the rows   *)
(* and columns that were fully Occupied when the call started and leaves   *)
(* every other cell as it was.                                             *)
(***************************************************************************)
C7_ClearFrame ==
    op = "clear_completed_lines" =>
        \A x \in 0..(columns - 1), y \in 0..(rows - 1) :
            Cell(contents, x, y) =
                IF RowFull(old.contents, y) \/ ColumnFull(old.contents, x)
                THEN "Empty"
                ELSE Cell(old.contents, x, y)

\* A full row crossing a full column cleared, an Occupied cell left behind
C7_Witness ==
    /\ op = "clear_completed_lines"
    /\ FullRows(old.contents) # {}
    /\ FullColumns(old.contents) # {}
    /\ OccupiedCells(contents) # {}

(***************************************************************************)
(* C8: clear_completed_lines returns the number of columns plus the number *)
(* of rows that were fully Occupied when the call started, a crossing row  *)
(* and column both counted; on an all-Occupied board it returns rows +     *)
(* columns and leaves every cell Empty.                                    *)
(***************************************************************************)
C8_ClearCount ==
    op = "clear_completed_lines" =>
        /\ ret = Cardinality(FullColumns(old.contents)) + Cardinality(FullRows(old.contents))
        /\ (\A i \in DOMAIN old.contents : old.contents[i] = "Occupied")
            => (ret = rows + columns /\ \A i \in DOMAIN contents : contents[i] = "Empty")

\* An all-Occupied board of at least two rows and two columns cleared
C8_Witness ==
    /\ op = "clear_completed_lines"
    /\ rows >= 2 /\ columns >= 2
    /\ \A i \in DOMAIN old.contents : old.contents[i] = "Occupied"
    /\ ret = rows + columns

(***************************************************************************)
(* C9: is_complete_row with row >= rows and is_complete_column with        *)
(* column >= columns return None, which is neither Some(true) nor          *)
(* Some(false), and leave the board unchanged.                             *)
(***************************************************************************)
C9_OutOfRangeLine ==
    /\ (op = "is_complete_row" /\ args.row >= rows)
        => (ret = None /\ ret # Some(TRUE) /\ ret # Some(FALSE) /\ contents = old.contents)
    /\ (op = "is_complete_column" /\ args.column >= columns)
        => (ret = None /\ ret # Some(TRUE) /\ ret # Some(FALSE) /\ contents = old.contents)

\* The first row past the grid asked for on a board with occupied cells
C9_Witness ==
    /\ op = "is_complete_row"
    /\ args.row = rows
    /\ ret = None
    /\ OccupiedCells(contents) # {}

(***************************************************************************)
(* C10: after every board operation every cell is Occupied or Empty; no    *)
(* cell is MarkedForRemoval once clear_completed_lines has returned.       *)
(***************************************************************************)
C10_NoMarkedCell ==
    \A i \in DOMAIN contents : contents[i] \in {"Occupied", "Empty"}

\* clear_completed_lines has returned after clearing lines
C10_Witness ==
    /\ op = "clear_completed_lines"
    /\ ret > 0
    /\ OccupiedCells(contents) # {}

(***************************************************************************)
(* C11: a successful maybe_place_block leaves the board with the block's   *)
(* on-grid cells Occupied and then every full row and column emptied, and  *)
(* the score 50 x (full rows + full columns) higher; with no full line the *)
(* score is as it was; on the 8x8 board the eighth 1x1 of row 0 empties    *)
(* the row and adds 50.                                                    *)
(***************************************************************************)
C11_PlacementScores ==
    (op = "maybe_place_block" /\ ret = "Ok") =>
        LET covered == Covers(args.block, args.row, args.column)
            placed == [i \in DOMAIN old.contents |->
                          IF <<i % columns, i \div columns>> \in covered
                          THEN "Occupied" ELSE old.contents[i]]
            lines == Cardinality(FullRows(placed)) + Cardinality(FullColumns(placed))
        IN /\ contents = [i \in DOMAIN placed |->
                             IF (i \div columns) \in FullRows(placed)
                                 \/ (i % columns) \in FullColumns(placed)
                             THEN "Empty" ELSE placed[i]]
           /\ score = old.score + 50 * lines
           /\ lines = 0 => score = old.score
           /\ (/\ rows = 8 /\ columns = 8
               /\ args.block = rectangle(1, 1) /\ args.row = 0
               /\ OccupiedCells(old.contents) = (0..7) \ {args.column})
              => (score = old.score + 50 /\ OccupiedCells(contents) = {})

\* The eighth 1x1 placed in row 0 of the 8x8 board
C11_Witness ==
    /\ op = "maybe_place_block" /\ ret = "Ok"
    /\ rows = 8 /\ columns = 8
    /\ args.block = rectangle(1, 1) /\ args.row = 0
    /\ OccupiedCells(old.contents) = (0..7) \ {args.column}
    /\ score = old.score + 50

(***************************************************************************)
(* C12: the score is never negative, no maybe_place_block (accepted or     *)
(* refused) and no generate_blocks lowers it, and a reset leaves it zero:  *)
(* only a reset can bring it down.                                         *)
(***************************************************************************)
C12_ScoreMonotone ==
    /\ [](score >= 0)
    /\ [][/\ op' # "reset" => score' >= score
          /\ op' = "reset" => score' = 0]_vars

\* A placement that raised a score already above zero
C12_Witness ==
    /\ op = "maybe_place_block"
    /\ old.score > 0
    /\ score > old.score

(***************************************************************************)
(* C13: reset leaves every cell Empty and the score zero, and the board    *)
(* keeps its rows, its columns and its rows * columns cells.               *)
(***************************************************************************)
C13_Reset ==
    op = "reset" =>
        /\ \A i \in DOMAIN contents : contents[i] = "Empty"
        /\ score = 0
        /\ rows = old.rows /\ columns = old.columns
        /\ DOMAIN contents = 0..(rows * columns - 1)

\* A reset of a board with Occupied cells and a score above zero
C13_Witness ==
    /\ op = "reset"
    /\ old.score > 0
    /\ OccupiedCells(old.contents) # {}
    /\ OccupiedCells(contents) = {}

\* The shuffled pools a generate_blocks call was given
OrdersOf(a) == [k \in 1..a.n |-> Shuffled(a.shuffles[k])]
\* A block fits at an origin: none of its points on the grid is Occupied
FitsAt(cs, block, row, column) ==
    \A q \in Covers(block, row, column) :
        OnGrid(q[1], q[2]) => Cell(cs, q[1], q[2]) # "Occupied"
\* The board with the block's points on the grid Occupied
PlacedAt(cs, block, row, column) ==
    [i \in DOMAIN cs |->
        IF <<i % columns, i \div columns>> \in Covers(block, row, column)
        THEN "Occupied" ELSE cs[i]]
\* Blocks k.. of a batch can be placed in turn, each at an origin of the grid
\* where it fits on the board the blocks before it have left
RECURSIVE PlaceableInOrder(_, _, _)
PlaceableInOrder(cs, blocks, k) ==
    \/ k > Len(blocks)
    \/ \E r \in 0..(rows - 1), c \in 0..(columns - 1) :
        /\ FitsAt(cs, blocks[k], r, c)
        /\ PlaceableInOrder(PlacedAt(cs, blocks[k], r, c), blocks, k + 1)

(***************************************************************************)
(* C14: a generate_blocks call, whether it returns blocks or None, leaves  *)
(* every cell of the game's board and the score as they were.              *)
(***************************************************************************)
C14_SupplyLeavesGame ==
    op = "generate_blocks" => (contents = old.contents /\ score = old.score)

\* A batch of two or more returned on a board with Occupied cells and a score
C14_Witness ==
    /\ op = "generate_blocks"
    /\ IsSome(ret) /\ Len(Unwrap(ret)) >= 2
    /\ OccupiedCells(contents) # {}
    /\ score > 0

(***************************************************************************)
(* C15: generate_blocks(n) returns either exactly n blocks or None, never  *)
(* a shorter batch.                                                        *)
(***************************************************************************)
C15_AllOrNothing ==
    op = "generate_blocks" =>
        (ret = None \/ (IsSome(ret) /\ Len(Unwrap(ret)) = args.n))

\* A batch that failed after its first slot had found a block
C15_Witness ==
    /\ op = "generate_blocks"
    /\ args.n >= 2
    /\ IsSome(naive_generate_block(old.contents, OrdersOf(args)[1]).ret)
    /\ ret = None

(***************************************************************************)
(* C16: the blocks generate_blocks returns can be placed one after another *)
(* in the order returned, starting from the game's board: each fits at     *)
(* some origin of the grid on the board the ones before it have left.      *)
(***************************************************************************)
C16_BatchPlaceable ==
    (op = "generate_blocks" /\ IsSome(ret))
        => PlaceableInOrder(old.contents, Unwrap(ret), 1)

(***************************************************************************)
(* C17: on the empty 8x8 board generate_blocks(3) returns three blocks     *)
(* whatever the shuffles, and can_fit holds on that board for each of      *)
(* them as returned.                                                       *)
(***************************************************************************)
C17_EmptyDefaultBoard ==
    (/\ op = "generate_blocks" /\ args.n = 3
     /\ rows = 8 /\ columns = 8
     /\ OccupiedCells(old.contents) = {})
    => /\ IsSome(ret)
       /\ Len(Unwrap(ret)) = 3
       /\ \A k \in 1..3 : can_fit(old.contents, Unwrap(ret)[k])

\* Three blocks of three kinds returned on the empty 8x8 board
C17_Witness ==
    /\ op = "generate_blocks" /\ args.n = 3
    /\ rows = 8 /\ columns = 8
    /\ OccupiedCells(old.contents) = {}
    /\ IsSome(ret)
    /\ Cardinality({Unwrap(ret)[k].variant : k \in 1..3}) = 3

\* The calls made on the Block so far, the constructor's first
Calls == Append(trail, Called)
\* The last calls made are the ones named, in that order
Ends(ops) ==
    /\ Len(Calls) >= Len(ops)
    /\ \A k \in 1..Len(ops) : Calls[Len(Calls) - Len(ops) + k].op = ops[k]
\* The n-th call from the end
Back(n) == Calls[Len(Calls) + 1 - n]

(***************************************************************************)
(* C18: four rotate_right calls in a row, and four rotate_left calls in a  *)
(* row, give back the points the block had before them; a rotate_left      *)
(* followed by a rotate_right, or the reverse, gives back the block; three *)
(* rotate_right calls leave what one rotate_left would.                    *)
(***************************************************************************)
C18_RotationGroup ==
    /\ Ends(<<"rotate_right", "rotate_right", "rotate_right", "rotate_right">>)
        => (shape = Back(4).args.block /\ Points(shape) = Points(Back(4).args.block))
    /\ Ends(<<"rotate_left", "rotate_left", "rotate_left", "rotate_left">>)
        => (shape = Back(4).args.block /\ Points(shape) = Points(Back(4).args.block))
    /\ Ends(<<"rotate_left", "rotate_right">>) => shape = Back(2).args.block
    /\ Ends(<<"rotate_right", "rotate_left">>) => shape = Back(2).args.block
    /\ Ends(<<"rotate_right", "rotate_right", "rotate_right">>)
        => shape = rotate_left(Back(3).args.block)

\* A tee after four rotate_right calls
C18_Witness ==
    /\ Ends(<<"tee", "rotate_right", "rotate_right", "rotate_right", "rotate_right">>)
    /\ shape = tee
    /\ Back(2).args.block # tee

(***************************************************************************)
(* C19: rotate_right sends each point (x, y) to (y, -x) and rotate_left    *)
(* sends it to (-y, x); the block keeps its number of points and its       *)
(* variant; the tee (0,0) (1,0) (2,0) (1,1) rotated right is               *)
(* (0,0) (0,-1) (0,-2) (1,-1).                                             *)
(***************************************************************************)
C19_RotationMaps ==
    /\ op = "rotate_right" =>
        /\ Len(shape.coords) = Len(args.block.coords)
        /\ shape.variant = args.block.variant
        /\ \A k \in 1..Len(shape.coords) :
            /\ shape.coords[k].x = args.block.coords[k].y
            /\ shape.coords[k].y = 0 - args.block.coords[k].x
    /\ op = "rotate_left" =>
        /\ Len(shape.coords) = Len(args.block.coords)
        /\ shape.variant = args.block.variant
        /\ \A k \in 1..Len(shape.coords) :
            /\ shape.coords[k].x = 0 - args.block.coords[k].y
            /\ shape.coords[k].y = args.block.coords[k].x
    /\ (op = "rotate_right"
            /\ Points(args.block) = {Point(0, 0), Point(1, 0), Point(2, 0), Point(1, 1)})
        => Points(shape) = {Point(0, 0), Point(0, 0 - 1), Point(0, 0 - 2), Point(1, 0 - 1)}

\* The tee as constructed, rotated right
C19_Witness ==
    /\ Ends(<<"tee", "rotate_right">>)
    /\ Points(shape) = {Point(0, 0), Point(0, 0 - 1), Point(0, 0 - 2), Point(1, 0 - 1)}
    /\ shape.variant = "Tee"

(***************************************************************************)
(* C20: dimensions() called before and after one rotate_left or one        *)
(* rotate_right returns the width and the height exchanged: line(2) goes   *)
(* from 2x1 to 1x2, the tee from 3x2 to 2x3, and a diagonal of k points is *)
(* k x k before and after.                                                 *)
(***************************************************************************)
C20_RotationSwapsDimensions ==
    (Ends(<<"dimensions", "rotate_left", "dimensions">>)
        \/ Ends(<<"dimensions", "rotate_right", "dimensions">>))
    => LET before == Back(3).ret
           after == Back(1).ret
           block == Back(3).args.block
       IN /\ after.width = before.height
          /\ after.height = before.width
          /\ block = line(2)
              => (before = [width |-> 2, height |-> 1] /\ after = [width |-> 1, height |-> 2])
          /\ block = tee
              => (before = [width |-> 3, height |-> 2] /\ after = [width |-> 2, height |-> 3])
          /\ block.variant = "Diagonal"
              => (/\ before = [width |-> Len(block.coords), height |-> Len(block.coords)]
                  /\ after = before)

\* The dimensions of a tee before and after a rotate_left
C20_Witness ==
    /\ Ends(<<"tee", "dimensions", "rotate_left", "dimensions">>)
    /\ Back(3).ret = [width |-> 3, height |-> 2]
    /\ ret = [width |-> 2, height |-> 3]

\* The block has no point twice
NoDuplicates(block) == Cardinality(Points(block)) = Len(block.coords)
\* The extent of a set of integers: largest - smallest + 1
Extent(vs) ==
    (CHOOSE hi \in vs : \A v \in vs : v <= hi) - (CHOOSE lo \in vs : \A v \in vs : lo <= v) + 1
\* v brought into lo..hi
Clamped(v, lo, hi) == CHOOSE c \in lo..hi : \A d \in lo..hi : (c - v) * (c - v) <= (d - v) * (d - v)

(***************************************************************************)
(* C21: a block as its constructor returned it, and after any rotations,   *)
(* has at least one point and no point twice, whatever the sizes given.    *)
(***************************************************************************)
C21_ShapeInvariant ==
    Calls[1].op \in {"tee", "rectangle", "line", "elle", "diagonal"}
    => (Len(shape.coords) >= 1 /\ NoDuplicates(shape))

(***************************************************************************)
(* C22: rectangle(w, h) has clamp(w,1,3) * clamp(h,1,3) points, the cells  *)
(* of a box that wide and that high; line(l) has clamp(l,2,5) points, all  *)
(* with y = 0; elle(a, b) spans clamp(b,2,3) along x and clamp(a,2,3)      *)
(* along y, and dimensions() of elle(2, 3) is width 3, height 2.           *)
(***************************************************************************)
C22_ConstructorsClamp ==
    /\ op = "rectangle" =>
        LET w == Clamped(args.width, 1, 3)
            h == Clamped(args.height, 1, 3)
        IN /\ Len(ret.coords) = w * h
           /\ Points(ret) = {Point(i, j) : i \in 0..(w - 1), j \in 0..(h - 1)}
    /\ op = "line" =>
        LET l == Clamped(args.length, 2, 5)
        IN /\ Len(ret.coords) = l
           /\ Points(ret) = {Point(i, 0) : i \in 0..(l - 1)}
    /\ op = "elle" =>
        /\ Extent({p.x : p \in Points(ret)}) = Clamped(args.height, 2, 3)
        /\ Extent({p.y : p \in Points(ret)}) = Clamped(args.width, 2, 3)
    /\ (Ends(<<"elle", "dimensions">>) /\ Back(2).args = [width |-> 2, height |-> 3])
        => ret = [width |-> 3, height |-> 2]

\* A rectangle asked with a width above the range and a height below it
C22_Witness ==
    /\ op = "rectangle"
    /\ args.width > 3 /\ args.height = 0
    /\ Len(ret.coords) = 3

(***************************************************************************)
(* C25: dimensions() of a block that is not a Diagonal, as constructed and *)
(* in each of its rotations, is the extent of its points: width is         *)
(* max x - min x + 1 and height is max y - min y + 1; dimensions() of a    *)
(* Diagonal is its number of points, both ways.                            *)
(***************************************************************************)
C25_DimensionsAreExtents ==
    op = "dimensions" =>
        IF args.block.variant = "Diagonal"
        THEN ret = [width |-> Len(args.block.coords), height |-> Len(args.block.coords)]
        ELSE /\ ret.width = Extent({p.x : p \in Points(args.block)})
             /\ ret.height = Extent({p.y : p \in Points(args.block)})

\* dimensions() of an elle of unequal arms after two rotations
C25_Witness ==
    /\ Ends(<<"elle", "rotate_left", "rotate_left", "dimensions">>)
    /\ ret.width # ret.height
    /\ \E p \in Points(args.block) : p.x < 0

(***************************************************************************)
(* C27: a block with at least one point, as its constructor returned it,   *)
(* has no point with a negative x or y and has the point (0, 0); after any *)
(* rotations it still has the point (0, 0).                                *)
(***************************************************************************)
C27_AnchoredAtOrigin ==
    Len(shape.coords) >= 1 =>
        /\ Point(0, 0) \in Points(shape)
        /\ Len(Calls) = 1 => \A p \in Points(shape) : p.x >= 0 /\ p.y >= 0

\* A diagonal of three points turned three times
C27_Witness ==
    /\ Ends(<<"diagonal", "rotate_right", "rotate_right", "rotate_right">>)
    /\ Len(shape.coords) = 3
    /\ Point(0, 0) \in Points(shape)
    /\ \E p \in Points(shape) : p.x < 0

(***************************************************************************)
(* C23: position_to_index(x, y) returns an index exactly when              *)
(* 0 <= x < columns and 0 <= y < rows; the index is columns * y + x, is    *)
(* one of the rows * columns indexes of the grid, and no other position of *)
(* the grid has it; for any other x, y it returns None.                    *)
(***************************************************************************)
C23_PositionToIndex ==
    op = "position_to_index" =>
        /\ IsSome(ret) <=> (0 <= args.x /\ args.x < columns /\ 0 <= args.y /\ args.y < rows)
        /\ DOMAIN contents = 0..(rows * columns - 1)
        /\ IsSome(ret) =>
            /\ Unwrap(ret) = columns * args.y + args.x
            /\ Unwrap(ret) \in DOMAIN contents
            /\ \A x \in 0..(columns - 1), y \in 0..(rows - 1) :
                    <<x, y>> # <<args.x, args.y>> => position_to_index(x, y) # ret

\* The index of a cell above row 0 on a board that is not square
C23_Witness ==
    /\ op = "position_to_index"
    /\ rows # columns /\ args.y > 0 /\ args.x > 0
    /\ ret = Some(columns * args.y + args.x)

(***************************************************************************)
(* C24: in every step of a Canvas, a cell goes from Empty to Occupied only *)
(* in an add whose block covers it, and from Occupied to Empty only in a   *)
(* clear_all or in a clear_completed_lines that starts with its row or its *)
(* column fully Occupied; every other call leaves every cell as it was,    *)
(* and a cell is Empty or Occupied after every call.                       *)
(***************************************************************************)
C24_CellLifeCycle ==
    [][\A i \in DOMAIN contents :
        /\ contents'[i] \in {"Empty", "Occupied"}
        /\ (contents[i] = "Empty" /\ contents'[i] = "Occupied") =>
            /\ op' = "add"
            /\ <<i % columns, i \div columns>> \in
                Covers(args'.playable.block, args'.playable.row.low, args'.playable.column.low)
        /\ (contents[i] = "Occupied" /\ contents'[i] = "Empty") =>
            \/ op' = "clear_all"
            \/ /\ op' = "clear_completed_lines"
               /\ RowFull(contents, i \div columns) \/ ColumnFull(contents, i % columns)
        /\ op' \notin {"add", "clear_completed_lines", "clear_all"}
            => contents'[i] = contents[i]]_vars

\* An add on a board with Occupied cells that made further cells Occupied
C24_Witness ==
    /\ op = "add"
    /\ OccupiedCells(old.contents) # {}
    /\ OccupiedCells(contents) # OccupiedCells(old.contents)
    /\ OccupiedCells(old.contents) \subseteq OccupiedCells(contents)

(***************************************************************************)
(* C26: in an accepted maybe_place_block every cell of the grid the block  *)
(* covers was Empty when the call started, and the add of the call, before *)
(* any line is cleared, raises the number of Occupied cells by the number  *)
(* of the block's points that are on the grid.                             *)
(***************************************************************************)
C26_NoOverlap ==
    (op = "maybe_place_block" /\ ret = "Ok") =>
        LET playable == try_make_playable(old.contents, args.block, args.row, args.column)
            added == add(old.contents, Unwrap(playable))
            on_grid == {q \in Covers(args.block, args.row, args.column) : OnGrid(q[1], q[2])}
        IN /\ \A q \in on_grid : Cell(old.contents, q[1], q[2]) = "Empty"
           /\ Cardinality(OccupiedCells(added))
                = Cardinality(OccupiedCells(old.contents)) + Cardinality(on_grid)

\* A tee placed partly off the grid on a board with Occupied cells
C26_Witness ==
    /\ op = "maybe_place_block" /\ ret = "Ok"
    /\ args.block.variant = "Tee"
    /\ OccupiedCells(old.contents) # {}
    /\ \E q \in Covers(args.block, args.row, args.column) : OnGrid(q[1], q[2])
    /\ \E q \in Covers(args.block, args.row, args.column) : ~OnGrid(q[1], q[2])

(***************************************************************************)
(* C28: in a game started fresh or reset, the board has no fully Occupied  *)
(* row and no fully Occupied column after any maybe_place_block, accepted  *)
(* or refused, so a board with a row and a column has an Empty cell.       *)
(***************************************************************************)
C28_NoFullLine ==
    /\ FullRows(contents) = {}
    /\ FullColumns(contents) = {}
    /\ (rows >= 1 /\ columns >= 1) => \E i \in DOMAIN contents : contents[i] = "Empty"

\* A placement that filled two lines at once and left Occupied cells
C28_Witness ==
    /\ op = "maybe_place_block" /\ ret = "Ok"
    /\ score = old.score + 100
    /\ OccupiedCells(contents) # {}

\* The shadow board has no Empty cell
ShadowFull(shadow) == \A i \in DOMAIN shadow : shadow[i] # "Empty"

\* No block of the pool, in any rotation, fits at any origin of the grid
NoCandidateFits(shadow) ==
    \A i \in 1..Len(all_blocks), t \in 1..(360 \div 90) :
        \A r \in 0..(rows - 1), c \in 0..(columns - 1) :
            ~FitsAt(shadow, all_rotations[i][t], r, c)

(***************************************************************************)
(* C29: a slot of generate_blocks finds no block, and the batch is None,   *)
(* exactly when no block of the pool in any rotation fits at any origin of *)
(* the grid on the shadow board the earlier slots have left, which is      *)
(* exactly when that shadow board has no Empty cell.                       *)
(***************************************************************************)
C29_SlotFailsWhenFull ==
    op = "generate_blocks" =>
        \A k \in 1..args.n :
            LET before == Slots(old.contents, <<>>, k - 1, OrdersOf(args), 1)
                slot == naive_generate_block(before.shadow, OrdersOf(args)[k])
            IN IsSome(before.ret) =>
                /\ ShadowFull(before.shadow) <=> NoCandidateFits(before.shadow)
                /\ (slot.ret = None) <=> ShadowFull(before.shadow)
                /\ (slot.ret = None) => ret = None

====
